---- MODULE Spec2Model ----
(***************************************************************************)
(* Model of the per-operator execution task of Salus                       *)
(* (src/oplibraries/tensorflow/v2/exectask.cpp): ExecTask::prepare,        *)
(* ExecTask::run with its sync and async branches, maybeMemoryFailure,     *)
(* finish, and ExecTask::estimatedUsage.                                   *)
(*                                                                         *)
(* Spec     the prepare/run/finish protocol of two tasks that share the    *)
(*          semaphore num_finished_ops; the thread that called run and the *)
(*          device thread that executes asyncDone interleave freely.       *)
(* SpecEst  the estimation state of one task (failureTimes, cachedUsage)   *)
(*          under calls of estimatedUsage, OOM failures and changes of the *)
(*          session tracker's usage.                                       *)
(* SpecRes  one task through prepare, run, OOM and retry, with the         *)
(*          scheduler's reservations in the resource monitor and           *)
(*          releasePreAllocation.                                          *)
(* SpecSem  threads on one sstl::priority_semaphore (utils/threadutils.h). *)
(***************************************************************************)
EXTENDS Integers, Sequences, FiniteSets, TLC

VARIABLES
    phase,          \* per task: where the scheduler's protocol stands
    rctxSpec,       \* per task: rctx.spec, the device of the last prepare
    opKernel,       \* per task: op_kernel != nullptr
    kernelCache,    \* per node: device the kernel cache holds the kernel on
    cycle,          \* per task: the inputs of the current call of run, once read
    hasRefInput,    \* per task: has_ref_input
    failureTimes,   \* per task: failureTimes
    runpc,          \* per task: position of the thread that called run
    devpc,          \* per task: position of the device thread in asyncDone
    trace,          \* per task: the observable steps of the current cycle
    sem,            \* num_finished_ops.m_count
    node,           \* estimation: the node of the task, as the estimate reads it
    maxFailures,    \* estimation: maxFailures of the task
    cachedUsage,    \* estimation: cachedUsage, device -> cached map, if any
    sessUsage,      \* estimation: what the session tracker returns now
    lastEst,        \* estimation: the last call of estimatedUsage and its result
    estLog,         \* estimation: the empirical estimates returned at each
                    \* failure count since the session usage last changed
    live,           \* monitor: the tickets whose reservation is deducted
    issued,         \* monitor: number of tickets issued so far
    ctx,            \* per task: ticket of the ResourceContext the scheduler holds
    rctxTicket,     \* per task: rctx.ticket, NoTicket while rctx.resMon is null
    relCalls,       \* per task: calls of releasePreAllocation since the last prepare
    oomCap,         \* failures after which kernels stop returning RESOURCE_EXHAUSTED
    m_count,        \* priority_semaphore: m_count
    m_pending,      \* priority_semaphore: m_pending[p]
    waiter,         \* priority_semaphore: per thread, the call it is in
    notified        \* priority_semaphore: blocked threads a notify_all has woken

lifeVars == <<phase, rctxSpec, opKernel, kernelCache, cycle,
              hasRefInput, failureTimes, runpc, devpc, trace, sem>>
estVars == <<node, maxFailures, cachedUsage, sessUsage, lastEst, estLog>>
resVars == <<live, issued, ctx, rctxTicket, relCalls, oomCap>>
semVars == <<m_count, m_pending, waiter, notified>>
vars == <<lifeVars, estVars, resVars, semVars>>

----------------------------------------------------------------------------
(* Bounds and value sets *)

\* OOM failures a task may see before its kernels stop returning
\* RESOURCE_EXHAUSTED
MaxOOM == 1

Tasks == {"t1", "t2"}

Statuses == {"OK", "RESOURCE_EXHAUSTED", "INTERNAL"}

ErrorStatuses == Statuses \ {"OK"}

\* DeviceSpec values handed to prepare; the device manager knows cpu0 and gpu0
DeviceSpecs == {<<"CPU", 0>>, <<"GPU", 0>>, <<"GPU", 1>>}

NoDevice == <<"none", 0>>

\* The devices the device manager can look up (LookupDevice succeeds)
KnownDevices == {<<"CPU", 0>>, <<"GPU", 0>>}

\* supportedTypes as the constructor fills it from the kernel registry
SupportedTypes(t) == IF t = "t1" THEN {"CPU", "GPU"} ELSE {"GPU"}

\* item.input_type(i) is a reference type for some input of the task's node
NodeHasRefInput(t) == t = "t2"

\* IsTransferNode(node): the task's node is a send/recv node
IsTransferNode(t) == t = "t2"

\* A field of cycle holds "-" until the code reads the input: cbs.memFailure
\* is read by maybeMemoryFailure on RESOURCE_EXHAUSTED, tagged_node.is_dead
\* where run decides whether to compute the node. failures0 is failureTimes
\* at the start of the cycle.
NoCycle == [memFailure |-> "-", is_dead |-> "-", failures0 |-> 0]

----------------------------------------------------------------------------
(* The observable steps of a cycle *)

Ev(op, st) == [op |-> op, st |-> st]

NodeDoneEv(st, ir, completed) ==
    [op |-> "NodeDone", st |-> st, inline_ready |-> ir, completed |-> completed]

\* Number of steps named op in sequence s
Count(s, op) == Cardinality({i \in 1..Len(s) : s[i].op = op})

\* Position of the first step named op in s, 0 when there is none
Index(s, op) ==
    IF \E i \in 1..Len(s) : s[i].op = op
    THEN CHOOSE i \in 1..Len(s) : s[i].op = op /\ \A j \in 1..(i-1) : s[j].op # op
    ELSE 0

\* Status of the first step named op in s, "-" when there is none
StatusOf(s, op) == IF Index(s, op) = 0 THEN "-" ELSE s[Index(s, op)].st

\* Status the kernel of the cycle ended with, "-" when none has
KernelStatus(s) ==
    IF Index(s, "Compute") # 0 THEN StatusOf(s, "Compute")
    ELSE StatusOf(s, "AsyncKernelDone")

\* failedTimes(): the accessor of failureTimes
FailedTimes(t) == failureTimes[t]

----------------------------------------------------------------------------
(* ExecTask::prepare *)

\* What find_kernel can answer for the node of task t: the status, whether a
\* kernel came back, and the device name it remembers for it
FindKernel(t) ==
    IF kernelCache[t] = NoDevice
    THEN {[ok |-> TRUE, found |-> FALSE, dev |-> NoDevice],
          [ok |-> FALSE, found |-> FALSE, dev |-> NoDevice]}
    ELSE {[ok |-> TRUE, found |-> TRUE, dev |-> kernelCache[t]],
          [ok |-> TRUE, found |-> TRUE, dev |-> NoDevice],
          [ok |-> FALSE, found |-> FALSE, dev |-> NoDevice]}

\* The scheduler calls prepare on a task that is not running: a new task, one
\* whose last prepare was rejected, or one that signalled memFailure
CanPrepare(t) ==
    /\ runpc[t] = "idle"
    /\ devpc[t] = "none"
    /\ \/ phase[t] \in {"Created", "Rejected"}
       \/ phase[t] = "MemFailed" /\ Count(trace[t], "memFailure") > 0

\* rctx.ticket while rctx.resMon is null
NoTicket == 0

\* What find_kernel answered: an error status, no kernel, a kernel whose
\* device name is empty, or a kernel and the device it was created on
Answer(fk) ==
    IF ~fk.ok THEN "error"
    ELSE IF ~fk.found THEN "none"
    ELSE IF fk.dev = NoDevice THEN "forgotten"
    ELSE "found"

\* The calls prepare makes for ctx.spec = dev before it returns
PrepareEvents(t, dev, fk) ==
    IF dev[1] \notin SupportedTypes(t) THEN << >>
    ELSE IF dev \notin KnownDevices THEN <<Ev("LookupDevice", "INTERNAL")>>
    ELSE <<Ev("LookupDevice", "OK"), Ev("setResourceContext", "-"),
           Ev("find_kernel", Answer(fk))>>

\* A faulty prepare: the device kind is not compared with supportedTypes
PrepareResult_AnyKind(t, dev, fk) ==
    IF dev \notin KnownDevices THEN [ret |-> FALSE, kernel |-> opKernel[t]]
    ELSE IF fk.ok /\ fk.found
         THEN IF fk.dev = NoDevice THEN [ret |-> FALSE, kernel |-> FALSE]
              ELSE IF fk.dev = dev THEN [ret |-> TRUE, kernel |-> TRUE]
              ELSE [ret |-> FALSE, kernel |-> FALSE]
    ELSE [ret |-> TRUE, kernel |-> FALSE]

\* A faulty prepare: a failed kernel lookup rejects the device
PrepareResult_LookupFailureRejects(t, dev, fk) ==
    IF dev[1] \notin SupportedTypes(t) THEN [ret |-> FALSE, kernel |-> opKernel[t]]
    ELSE IF dev \notin KnownDevices THEN [ret |-> FALSE, kernel |-> opKernel[t]]
    ELSE IF fk.ok /\ fk.found
         THEN IF fk.dev = NoDevice THEN [ret |-> FALSE, kernel |-> FALSE]
              ELSE IF fk.dev = dev THEN [ret |-> TRUE, kernel |-> TRUE]
              ELSE [ret |-> FALSE, kernel |-> FALSE]
    ELSE IF ~fk.ok THEN [ret |-> FALSE, kernel |-> FALSE]
    ELSE [ret |-> TRUE, kernel |-> FALSE]

\* A faulty prepare: a kernel the cache already holds is never adopted
PrepareResult_NoReuse(t, dev, fk) ==
    IF dev[1] \notin SupportedTypes(t) THEN [ret |-> FALSE, kernel |-> opKernel[t]]
    ELSE IF dev \notin KnownDevices THEN [ret |-> FALSE, kernel |-> opKernel[t]]
    ELSE IF fk.ok /\ fk.found THEN [ret |-> FALSE, kernel |-> FALSE]
    ELSE [ret |-> TRUE, kernel |-> FALSE]

\* A faulty prepare: a kernel created on another device is adopted
PrepareResult_MovesKernel(t, dev, fk) ==
    IF dev[1] \notin SupportedTypes(t) THEN [ret |-> FALSE, kernel |-> opKernel[t]]
    ELSE IF dev \notin KnownDevices THEN [ret |-> FALSE, kernel |-> opKernel[t]]
    ELSE IF fk.ok /\ fk.found
         THEN IF fk.dev = NoDevice THEN [ret |-> FALSE, kernel |-> FALSE]
              ELSE [ret |-> TRUE, kernel |-> TRUE]
    ELSE [ret |-> TRUE, kernel |-> FALSE]

\* The value prepare returns and the op_kernel it leaves, for ctx.spec = dev
\* and find_kernel answering fk
PrepareResult(t, dev, fk) ==
    IF dev[1] \notin SupportedTypes(t) THEN [ret |-> FALSE, kernel |-> opKernel[t]]
    ELSE IF dev \notin KnownDevices THEN [ret |-> FALSE, kernel |-> opKernel[t]]
    ELSE IF fk.ok /\ fk.found
         THEN IF fk.dev = NoDevice THEN [ret |-> FALSE, kernel |-> FALSE]
              ELSE IF fk.dev = dev THEN [ret |-> TRUE, kernel |-> TRUE]
              ELSE [ret |-> FALSE, kernel |-> FALSE]
    ELSE [ret |-> TRUE, kernel |-> FALSE]

\* prepare(ctx), ctx being the context the scheduler holds for the task
Prepare(t) ==
    /\ CanPrepare(t)
    /\ ctx[t] # NoTicket
    /\ \E dev \in DeviceSpecs, fk \in FindKernel(t) :
         LET r == PrepareResult(t, dev, fk) IN
         /\ rctxSpec' = [rctxSpec EXCEPT ![t] = dev]
         /\ opKernel' = [opKernel EXCEPT ![t] = r.kernel]
         /\ phase' = [phase EXCEPT ![t] = IF r.ret THEN "Prepared" ELSE "Rejected"]
         /\ trace' = [trace EXCEPT ![t] = PrepareEvents(t, dev, fk)]
    /\ rctxTicket' = [rctxTicket EXCEPT ![t] = ctx[t]]
    /\ relCalls' = [relCalls EXCEPT ![t] = 0]
    /\ cycle' = [cycle EXCEPT ![t] = [NoCycle EXCEPT !.failures0 = failureTimes[t]]]
    /\ UNCHANGED <<kernelCache, hasRefInput, failureTimes, runpc,
                   devpc, sem, estVars, live, issued, ctx, oomCap, semVars>>

----------------------------------------------------------------------------
(* The resource monitor and ExecTask::releasePreAllocation *)

\* Tickets the monitor issues at most
MaxTickets == 4

\* Calls of releasePreAllocation the scheduler makes between two prepares
MaxReleases == 2

\* ResourceMonitor::reserve: the tickets deducted after a ticket was issued
MonitorReserve(lv, n) == lv \cup {n + 1}

\* ResourceMonitor::free(ticket): a ticket that is not live is left alone
MonitorFree(lv, tk) == lv \ {tk}

\* The scheduler reserves for the task and wraps the ticket in a new
\* ResourceContext, once the context it held has been handed to prepare
Reserve(t) ==
    /\ CanPrepare(t)
    /\ ctx[t] = NoTicket \/ ctx[t] = rctxTicket[t]
    /\ issued < MaxTickets
    /\ live' = MonitorReserve(live, issued)
    /\ issued' = issued + 1
    /\ ctx' = [ctx EXCEPT ![t] = issued + 1]
    /\ UNCHANGED <<lifeVars, estVars, rctxTicket, relCalls, oomCap, semVars>>

\* A faulty releasePreAllocation: every reservation of the monitor is
\* returned
ReleasePreAllocation_FreesAll(t) ==
    /\ runpc[t] = "idle"
    /\ devpc[t] = "none"
    /\ phase[t] \in {"Created", "Rejected", "Finished", "MemFailed"}
    /\ relCalls[t] < MaxReleases
    /\ live' = {}
    /\ relCalls' = [relCalls EXCEPT ![t] = @ + 1]
    /\ UNCHANGED <<lifeVars, estVars, issued, ctx, rctxTicket, oomCap, semVars>>

\* releasePreAllocation, called by the scheduler on a task that is not
\* between prepare and the end of its run
ReleasePreAllocation(t) ==
    /\ runpc[t] = "idle"
    /\ devpc[t] = "none"
    /\ phase[t] \in {"Created", "Rejected", "Finished", "MemFailed"}
    /\ relCalls[t] < MaxReleases
    /\ live' = IF rctxTicket[t] # NoTicket THEN MonitorFree(live, rctxTicket[t])
               ELSE live
    /\ relCalls' = [relCalls EXCEPT ![t] = @ + 1]
    /\ UNCHANGED <<lifeVars, estVars, issued, ctx, rctxTicket, oomCap, semVars>>

\* The scheduler has reserved for every task before the first prepare
ResInit(cap) ==
    /\ issued = Cardinality(Tasks)
    /\ live = 1..issued
    /\ ctx \in [Tasks -> live]
    /\ ctx["t1"] = 1
    /\ \A a, b \in Tasks : a # b => ctx[a] # ctx[b]
    /\ rctxTicket = [t \in Tasks |-> NoTicket]
    /\ relCalls = [t \in Tasks |-> 0]
    /\ oomCap = cap

----------------------------------------------------------------------------
(* sstl::semaphore *)

\* semaphore::notify(c): the count after the call
SemNotify(count, c) == count + c

----------------------------------------------------------------------------
(* ExecTask::maybeMemoryFailure and ExecTask::finish *)

\* A faulty maybeMemoryFailure: it counts the failure and signals memFailure
\* but tells its caller to carry on
MaybeMemoryFailure_CarriesOn(s, mf) ==
    IF s = "RESOURCE_EXHAUSTED"
    THEN [ret |-> FALSE, inc |-> 1,
          events |-> IF mf THEN <<Ev("memFailure", "-")>> ELSE << >>]
    ELSE [ret |-> FALSE, inc |-> 0, events |-> << >>]

\* A faulty maybeMemoryFailure: the failure is signalled but not counted
MaybeMemoryFailure_Uncounted(s, mf) ==
    IF s = "RESOURCE_EXHAUSTED"
    THEN [ret |-> TRUE, inc |-> 0,
          events |-> IF mf THEN <<Ev("memFailure", "-")>> ELSE << >>]
    ELSE [ret |-> FALSE, inc |-> 0, events |-> << >>]

\* maybeMemoryFailure(s, memFailure): the value returned, the increment of
\* failureTimes and the callbacks invoked; mf says that memFailure is non-empty
MaybeMemoryFailure(s, mf) ==
    IF s = "RESOURCE_EXHAUSTED"
    THEN [ret |-> TRUE, inc |-> 1,
          events |-> IF mf THEN <<Ev("memFailure", "-")>> ELSE << >>]
    ELSE [ret |-> FALSE, inc |-> 0, events |-> << >>]

\* A faulty finish: NodeDone is handed an OK status whatever s is
FinishHead_StatusLost(s, isAsync, completed) ==
    <<Ev("MaybeMarkCompleted", "-"), NodeDoneEv("OK", ~isAsync, completed)>>
    \o (IF isAsync
        THEN (IF completed THEN <<Ev("Finish", "-")>> ELSE << >>)
        ELSE <<Ev("launched", "-")>>)

\* finish(s, cbs, rendez, isAsync) up to the notify of num_finished_ops;
\* completed is the value NodeDone returns
FinishHead(s, isAsync, completed) ==
    <<Ev("MaybeMarkCompleted", "-"), NodeDoneEv(s, ~isAsync, completed)>>
    \o (IF isAsync
        THEN (IF completed THEN <<Ev("Finish", "-")>> ELSE << >>)
        ELSE <<Ev("launched", "-")>>)

\* The statuses the kernel of task t can end with. A kernel with a reference
\* input never ends with RESOURCE_EXHAUSTED (asserted by maybeMemoryFailure);
\* the number of OOM failures of a task is capped by oomCap.
KernelStatuses(t) ==
    {s \in Statuses : s = "RESOURCE_EXHAUSTED" =>
                        /\ ~(hasRefInput[t] \/ NodeHasRefInput(t))
                        /\ failureTimes[t] < oomCap}

\* ProcessOutputs hands back the status of a failed kernel context, and its
\* own status otherwise
ProcessOutputs(kst) == IF kst # "OK" THEN {kst} ELSE Statuses

----------------------------------------------------------------------------
(* ExecTask::run *)

CanRun(t) == phase[t] = "Prepared" /\ runpc[t] = "idle" /\ devpc[t] = "none"

\* SetupKernel is called when prepare adopted no kernel
Prologue(t) == IF opKernel[t] THEN << >> ELSE <<Ev("SetupKernel", "OK")>>

\* The kernel is there: classify it and scan the inputs for reference types
KernelReady(t) ==
    /\ opKernel' = [opKernel EXCEPT ![t] = TRUE]
    /\ kernelCache' = [kernelCache EXCEPT ![t] = IF opKernel[t] THEN @ ELSE rctxSpec[t]]
    /\ hasRefInput' = [hasRefInput EXCEPT ![t] = @ \/ NodeHasRefInput(t)]

\* A faulty postprocess: the outputs are never propagated
Postprocess_NoPropagate(s, completed) ==
    <<Ev("ClearInputs", "-")>> \o FinishHead(s, FALSE, completed)

\* Clear inputs, propagate outputs when the status is OK, then finish
Postprocess(s, completed) ==
    <<Ev("ClearInputs", "-")>>
    \o (IF s = "OK" THEN <<Ev("PropagateOutputs", "-")>> ELSE << >>)
    \o FinishHead(s, FALSE, completed)

\* A faulty test: every dead node is skipped, transfer node or not
SkipsKernel_AnyDead(t, dead) == dead

\* The node is computed unless it is dead and no transfer node
SkipsKernel(t, dead) == dead /\ ~IsTransferNode(t)

Start(t, mf, dead) ==
    /\ CanRun(t)
    /\ cycle' = [cycle EXCEPT ![t] = [memFailure |-> mf, is_dead |-> dead,
                                      failures0 |-> failureTimes[t]]]

\* SetupKernel fails
RunSetupKernelFail(t) ==
    \E completed \in BOOLEAN, s \in ErrorStatuses :
      /\ Start(t, "-", "-")
      /\ ~opKernel[t]
      /\ trace' = [trace EXCEPT ![t] = <<Ev("SetupKernel", s)>> \o FinishHead(s, FALSE, completed)]
      /\ runpc' = [runpc EXCEPT ![t] = "finish_notify"]
      /\ phase' = [phase EXCEPT ![t] = "Running"]
      /\ UNCHANGED <<rctxSpec, opKernel, kernelCache, hasRefInput,
                     failureTimes, devpc, sem, estVars, resVars, semVars>>

\* SetAllocAttrForNode fails
RunSetAllocAttrFail(t) ==
    \E completed \in BOOLEAN, s \in ErrorStatuses :
      /\ Start(t, "-", "-")
      /\ KernelReady(t)
      /\ trace' = [trace EXCEPT ![t] =
                     Prologue(t) \o <<Ev("SetAllocAttrForNode", s)>>
                     \o FinishHead(s, FALSE, completed)]
      /\ runpc' = [runpc EXCEPT ![t] = "finish_notify"]
      /\ phase' = [phase EXCEPT ![t] = "Running"]
      /\ UNCHANGED <<rctxSpec, failureTimes, devpc, sem, estVars, resVars, semVars>>

\* A dead node that is no transfer node: the kernel is skipped
RunDeadNode(t) ==
    \E completed \in BOOLEAN :
      /\ Start(t, "-", TRUE)
      /\ SkipsKernel(t, TRUE)
      /\ KernelReady(t)
      /\ trace' = [trace EXCEPT ![t] =
                     Prologue(t)
                     \o <<Ev("SetAllocAttrForNode", "OK"), Ev("ResizeOutputs", "-")>>
                     \o Postprocess("OK", completed)]
      /\ runpc' = [runpc EXCEPT ![t] = "finish_notify"]
      /\ phase' = [phase EXCEPT ![t] = "Running"]
      /\ UNCHANGED <<rctxSpec, failureTimes, devpc, sem, estVars, resVars, semVars>>

\* PrepareInputs fails
RunPrepareInputsFail(t) ==
    \E dead \in BOOLEAN, completed \in BOOLEAN, s \in ErrorStatuses :
      /\ Start(t, "-", dead)
      /\ ~SkipsKernel(t, dead)
      /\ KernelReady(t)
      /\ trace' = [trace EXCEPT ![t] =
                     Prologue(t)
                     \o <<Ev("SetAllocAttrForNode", "OK"), Ev("PrepareInputs", s),
                          Ev("ClearInputs", "-")>>
                     \o FinishHead(s, FALSE, completed)]
      /\ runpc' = [runpc EXCEPT ![t] = "finish_notify"]
      /\ phase' = [phase EXCEPT ![t] = "Running"]
      /\ UNCHANGED <<rctxSpec, failureTimes, devpc, sem, estVars, resVars, semVars>>

\* The callbacks maybeMemoryFailure can be handed: it reads memFailure only
\* when the status is RESOURCE_EXHAUSTED
MemFailureRead(kst) == IF kst = "RESOURCE_EXHAUSTED" THEN BOOLEAN ELSE {"-"}

\* Synchronous kernel: Compute, the OOM check, ProcessOutputs, postprocess
RunSync(t) ==
    \E dead \in BOOLEAN, kst \in KernelStatuses(t) :
      \E mf \in MemFailureRead(kst) :
      LET m == MaybeMemoryFailure(kst, mf = TRUE)
          head == Prologue(t)
                  \o <<Ev("SetAllocAttrForNode", "OK"), Ev("PrepareInputs", "OK"),
                       Ev("Compute", kst)>>
      IN
      /\ Start(t, mf, dead)
      /\ ~SkipsKernel(t, dead)
      /\ KernelReady(t)
      /\ failureTimes' = [failureTimes EXCEPT ![t] = @ + m.inc]
      /\ IF m.ret
         THEN /\ trace' = [trace EXCEPT ![t] = head \o m.events]
              /\ runpc' = runpc
              /\ phase' = [phase EXCEPT ![t] = "MemFailed"]
         ELSE \E pout \in ProcessOutputs(kst), completed \in BOOLEAN :
                /\ trace' = [trace EXCEPT ![t] =
                               head \o <<Ev("ProcessOutputs", pout)>>
                               \o Postprocess(pout, completed)]
                /\ runpc' = [runpc EXCEPT ![t] = "finish_notify"]
                /\ phase' = [phase EXCEPT ![t] = "Running"]
      /\ UNCHANGED <<rctxSpec, devpc, sem, estVars, resVars, semVars>>

\* Asynchronous kernel: asyncDone is handed to ComputeAsync
RunAsync(t) ==
    \E dead \in BOOLEAN :
      /\ Start(t, "-", dead)
      /\ ~SkipsKernel(t, dead)
      /\ KernelReady(t)
      /\ trace' = [trace EXCEPT ![t] =
                     Prologue(t)
                     \o <<Ev("SetAllocAttrForNode", "OK"), Ev("PrepareInputs", "OK"),
                          Ev("ComputeAsync", "-")>>]
      /\ runpc' = [runpc EXCEPT ![t] = "compute_async"]
      /\ devpc' = [devpc EXCEPT ![t] = "pending"]
      /\ phase' = [phase EXCEPT ![t] = "Running"]
      /\ UNCHANGED <<rctxSpec, failureTimes, sem, estVars, resVars, semVars>>

\* ComputeAsync has returned: run fires launched and returns
RunLaunched(t) ==
    /\ runpc[t] = "compute_async"
    /\ trace' = [trace EXCEPT ![t] = Append(@, Ev("launched", "-"))]
    /\ runpc' = [runpc EXCEPT ![t] = "idle"]
    /\ UNCHANGED <<phase, rctxSpec, opKernel, kernelCache, cycle,
                   hasRefInput, failureTimes, devpc, sem, estVars, resVars, semVars>>

\* A faulty finish: done is reached without the notify of num_finished_ops
FinishNotify_Skipped(t) ==
    /\ runpc[t] = "finish_notify"
    /\ runpc' = [runpc EXCEPT ![t] = "finish_done"]
    /\ UNCHANGED <<phase, rctxSpec, opKernel, kernelCache, cycle,
                   hasRefInput, failureTimes, devpc, trace, sem, estVars, resVars, semVars>>

\* finish: num_finished_ops.notify()
FinishNotify(t) ==
    /\ runpc[t] = "finish_notify"
    /\ sem' = SemNotify(sem, 1)
    /\ trace' = [trace EXCEPT ![t] = Append(@, Ev("notify", "-"))]
    /\ runpc' = [runpc EXCEPT ![t] = "finish_done"]
    /\ UNCHANGED <<phase, rctxSpec, opKernel, kernelCache, cycle,
                   hasRefInput, failureTimes, devpc, estVars, resVars, semVars>>

\* finish: cbs.done()
FinishDone(t) ==
    /\ runpc[t] = "finish_done"
    /\ trace' = [trace EXCEPT ![t] = Append(@, Ev("done", "-"))]
    /\ runpc' = [runpc EXCEPT ![t] = "idle"]
    /\ phase' = [phase EXCEPT ![t] = "Finished"]
    /\ UNCHANGED <<rctxSpec, opKernel, kernelCache, cycle,
                   hasRefInput, failureTimes, devpc, sem, estVars, resVars, semVars>>

----------------------------------------------------------------------------
(* The asyncDone callback, executed by the device *)

\* asyncDone up to the notify of num_finished_ops
AsyncDone(t) ==
    /\ devpc[t] = "pending"
    /\ \E kst \in KernelStatuses(t) :
         \E mf \in MemFailureRead(kst) :
         LET m == MaybeMemoryFailure(kst, mf = TRUE) IN
         /\ failureTimes' = [failureTimes EXCEPT ![t] = @ + m.inc]
         /\ cycle' = [cycle EXCEPT ![t].memFailure = mf]
         /\ IF m.ret
            THEN /\ trace' = [trace EXCEPT ![t] =
                                @ \o <<Ev("AsyncKernelDone", kst)>> \o m.events]
                 /\ devpc' = [devpc EXCEPT ![t] = "none"]
                 /\ phase' = [phase EXCEPT ![t] = "MemFailed"]
            ELSE \E pout \in ProcessOutputs(kst), completed \in BOOLEAN :
                   /\ trace' = [trace EXCEPT ![t] =
                                  @ \o <<Ev("AsyncKernelDone", kst),
                                         Ev("ProcessOutputs", pout),
                                         Ev("ClearInputs", "-")>>
                                  \o (IF pout = "OK"
                                      THEN <<Ev("PropagateOutputs", "-")>> ELSE << >>)
                                  \o <<Ev("MaybeMarkCompleted", "-"),
                                       NodeDoneEv(pout, FALSE, completed)>>
                                  \o (IF completed THEN <<Ev("Finish", "-")>> ELSE << >>)]
                   /\ devpc' = [devpc EXCEPT ![t] = "async_notify"]
                   /\ phase' = phase
    /\ UNCHANGED <<rctxSpec, opKernel, kernelCache, hasRefInput, runpc, sem, estVars, resVars, semVars>>

\* asyncDone: num_finished_ops.notify()
AsyncNotify(t) ==
    /\ devpc[t] = "async_notify"
    /\ sem' = SemNotify(sem, 1)
    /\ trace' = [trace EXCEPT ![t] = Append(@, Ev("notify", "-"))]
    /\ devpc' = [devpc EXCEPT ![t] = "async_done"]
    /\ UNCHANGED <<phase, rctxSpec, opKernel, kernelCache, cycle,
                   hasRefInput, failureTimes, runpc, estVars, resVars, semVars>>

\* asyncDone: cbs.done()
AsyncDoneCb(t) ==
    /\ devpc[t] = "async_done"
    /\ trace' = [trace EXCEPT ![t] = Append(@, Ev("done", "-"))]
    /\ devpc' = [devpc EXCEPT ![t] = "none"]
    /\ phase' = [phase EXCEPT ![t] = "Finished"]
    /\ UNCHANGED <<rctxSpec, opKernel, kernelCache, cycle,
                   hasRefInput, failureTimes, runpc, sem, estVars, resVars, semVars>>

----------------------------------------------------------------------------
(* Resource maps *)

\* Largest maxFailures a task is constructed with
MaxFailuresBound == 4

\* OOM failures the task whose estimates are followed may see
MaxEstFailures == 3

\* Quantities are doubles in the code. They are kept here as multiples of
\* 1/Unit byte, so that the scaling by 1.0 / 2^n, which is exact on doubles,
\* is exact here as well for every n the bounds allow.
Unit == 2 ^ (MaxFailuresBound + 1)

Bytes(n) == n * Unit

\* The devices estimatedUsage is asked about
EstDevices == {<<"CPU", 0>>, <<"GPU", 0>>}

\* ResourceTag: (MEMORY, device)
Tags == {<<"MEMORY", d>> : d \in EstDevices}

\* A ResourceMap gives each tag its quantity, Absent for a tag it does not hold
Absent == -1

EmptyMap == [tag \in Tags |-> Absent]

Present(m) == {tag \in Tags : m[tag] # Absent}

\* m[tag] += q, creating the entry when it is missing
AddTo(m, tag, q) == [m EXCEPT ![tag] = (IF @ = Absent THEN 0 ELSE @) + q]

\* resources::merge(lhs, rhs): point-wise sum over the tags of either map
Merge(lhs, rhs) ==
    [tag \in Tags |->
       IF lhs[tag] = Absent /\ rhs[tag] = Absent THEN Absent
       ELSE (IF lhs[tag] = Absent THEN 0 ELSE lhs[tag])
            + (IF rhs[tag] = Absent THEN 0 ELSE rhs[tag])]

\* resources::scale(m, 1.0 / scale), scale a power of two
ScaleDown(m, scale) ==
    [tag \in Tags |-> IF m[tag] = Absent THEN Absent ELSE m[tag] \div scale]

\* 1 << n on int; n stays below 31 within the bounds
ShiftLeftOne(n) == 2 ^ n

----------------------------------------------------------------------------
(* ExecTask::estimatedUsage *)

\* The task whose estimates SpecEst follows
EstTask == "t1"

NoSession == [present |-> FALSE, temporary |-> EmptyMap, persistant |-> EmptyMap]

MapOf(cpu, gpu) == [tag \in Tags |-> IF tag[2][1] = "CPU" THEN cpu ELSE gpu]

\* What SessionResourceTracker::usage can return for the session
SessionUsages ==
    {NoSession,
     [present |-> TRUE, temporary |-> MapOf(Absent, Bytes(1000)),
      persistant |-> MapOf(Absent, Bytes(200))],
     [present |-> TRUE, temporary |-> MapOf(Bytes(16), Bytes(64)),
      persistant |-> MapOf(Bytes(8), Absent)]}

\* A dimension whose value is not known
UnknownDim == -1

Output(rankKnown, dims, size, host) ==
    [rankKnown |-> rankKnown, dims |-> dims, size |-> size, host |-> host]

\* The nodes a task is built for: whether shape information exists, whether
\* the memory types of the node can be looked up, and per output its shape,
\* the size of its dtype and whether its memory type is HOST_MEMORY
Nodes ==
    {[shape |-> TRUE, mtypes |-> TRUE, types |-> {"CPU", "GPU"},
      outputs |-> <<Output(TRUE, <<2, 3>>, 4, FALSE)>>],
     [shape |-> TRUE, mtypes |-> TRUE, types |-> {"GPU"},
      outputs |-> <<Output(TRUE, <<2, 3>>, 4, TRUE), Output(TRUE, <<4>>, 8, FALSE)>>],
     [shape |-> TRUE, mtypes |-> FALSE, types |-> {"GPU"},
      outputs |-> <<Output(TRUE, <<2, UnknownDim>>, 4, TRUE), Output(FALSE, << >>, 4, FALSE)>>],
     [shape |-> FALSE, mtypes |-> TRUE, types |-> {"CPU", "GPU"},
      outputs |-> <<Output(TRUE, <<5>>, 2, FALSE)>>],
     [shape |-> TRUE, mtypes |-> FALSE, types |-> {"GPU"},
      outputs |-> <<Output(FALSE, << >>, 4, FALSE)>>]}

\* A faulty count: the dimensions are added up
RECURSIVE DimProduct_Sum(_)
DimProduct_Sum(dims) ==
    IF dims = << >> THEN 0
    ELSE (IF Head(dims) = UnknownDim THEN 0 ELSE Head(dims)) + DimProduct_Sum(Tail(dims))

\* count of one output: the product of its known dimensions
RECURSIVE DimProduct(_)
DimProduct(dims) ==
    IF dims = << >> THEN 1
    ELSE (IF Head(dims) = UnknownDim THEN 1 ELSE Head(dims)) * DimProduct(Tail(dims))

\* The loop over the outputs: res after outputs i..num_outputs were added
RECURSIVE AddOutputs(_, _, _, _, _)
AddOutputs(res, outs, mtypeOk, cpuTag, devTag) ==
    IF outs = << >> THEN res
    ELSE LET o == Head(outs)
             subtotal == Bytes(DimProduct(o.dims) * o.size)
             next == IF ~o.rankKnown THEN res
                     ELSE IF mtypeOk /\ o.host THEN AddTo(res, cpuTag, subtotal)
                     ELSE AddTo(res, devTag, subtotal)
         IN AddOutputs(next, Tail(outs), mtypeOk, cpuTag, devTag)

\* The slow path: the estimate from the inferred output shapes of node n
ShapeInference(n, dev) ==
    IF ~n.shape THEN EmptyMap
    ELSE AddOutputs(EmptyMap, n.outputs, n.mtypes, <<"MEMORY", dev>>, <<"MEMORY", dev>>)

\* A faulty exponent: the clamped failure count itself
ScaleShift_FailureCount(k, M) == IF k > M THEN M ELSE k

\* A faulty exponent: f is not clamped, the scale goes on to 1
ScaleShift_NoFloor(k, M) == IF k > M THEN 0 ELSE M + 1 - k

\* The exponent of the scale: maxFailures + 1 - f, f clamped to maxFailures
ScaleShift(k, M) == M + 1 - (IF k > M THEN M ELSE k)

\* The short-cut of a task that has failed before: the merged session usage,
\* scaled
Empirical(rm, k, M) ==
    ScaleDown(Merge(rm.temporary, rm.persistant), ShiftLeftOne(ScaleShift(k, M)))

NotCached == [cached |-> FALSE, map |-> EmptyMap]

Cached(m) == [cached |-> TRUE, map |-> m]

\* cachedUsage after the body of estimatedUsage(dev)
CacheAfterEstimate(cache, n, dev, k, M, rm) ==
    LET c1 == IF k > 0 /\ rm.present
              THEN [cache EXCEPT ![dev] = Cached(Empirical(rm, k, M))]
              ELSE cache
    IN IF c1[dev].cached THEN c1
       ELSE [c1 EXCEPT ![dev] = Cached(ShapeInference(n, dev))]

\* The constructor estimates the usage on device 0 of every supported type
RECURSIVE CacheAfterConstructor(_, _, _)
CacheAfterConstructor(cache, n, types) ==
    IF types = {} THEN cache
    ELSE LET ty == CHOOSE x \in types : TRUE
         IN CacheAfterConstructor(
              CacheAfterEstimate(cache, n, <<ty, 0>>, 0, 0, NoSession), n, types \ {ty})

NoEstimate == [called |-> FALSE, dev |-> NoDevice, k |-> 0, sess |-> NoSession,
               ret |-> EmptyMap]

NoLog == [k \in 1..MaxEstFailures |-> NotCached]

EstimatedUsage(dev) ==
    LET k == failureTimes[EstTask]
        after == CacheAfterEstimate(cachedUsage, node, dev, k, maxFailures, sessUsage)
    IN /\ cachedUsage' = after
       /\ lastEst' = [called |-> TRUE, dev |-> dev, k |-> k, sess |-> sessUsage,
                      ret |-> after[dev].map]
       /\ estLog' = IF k > 0 /\ sessUsage.present
                    THEN [estLog EXCEPT ![k] = after[dev]]
                    ELSE estLog
       /\ UNCHANGED <<lifeVars, node, maxFailures, sessUsage, resVars, semVars>>

\* A run of the task ends with RESOURCE_EXHAUSTED
EstMemoryFailure ==
    /\ failureTimes[EstTask] < MaxEstFailures
    /\ \E mf \in BOOLEAN :
         failureTimes' = [failureTimes EXCEPT ![EstTask] =
                            @ + MaybeMemoryFailure("RESOURCE_EXHAUSTED", mf).inc]
    /\ UNCHANGED <<phase, rctxSpec, opKernel, kernelCache, cycle, hasRefInput,
                   runpc, devpc, trace, sem, estVars, resVars, semVars>>

\* The session tracker records other usage for the session, or drops it
SessionChange ==
    /\ \E u \in SessionUsages \ {sessUsage} : sessUsage' = u
    /\ estLog' = NoLog
    /\ UNCHANGED <<lifeVars, node, maxFailures, cachedUsage, lastEst, resVars, semVars>>

\* The estimation state of the tasks of Spec, which does not follow it
EstIdle ==
    /\ node = CHOOSE n \in Nodes : n.shape /\ n.mtypes /\ Len(n.outputs) = 1
    /\ maxFailures = MaxFailuresBound
    /\ cachedUsage = [d \in EstDevices |-> NotCached]
    /\ sessUsage = NoSession
    /\ lastEst = NoEstimate
    /\ estLog = NoLog

EstInit ==
    /\ node \in Nodes
    /\ maxFailures \in 0..MaxFailuresBound
    /\ cachedUsage = CacheAfterConstructor([d \in EstDevices |-> NotCached], node,
                                           node.types)
    /\ sessUsage \in SessionUsages
    /\ lastEst = NoEstimate
    /\ estLog = NoLog

----------------------------------------------------------------------------
(* The protocol of the tasks *)

LifeInit ==
    /\ phase = [t \in Tasks |-> "Created"]
    /\ rctxSpec = [t \in Tasks |-> NoDevice]
    /\ opKernel = [t \in Tasks |-> FALSE]
    /\ kernelCache = [t \in Tasks |-> NoDevice]
    /\ cycle = [t \in Tasks |-> NoCycle]
    /\ hasRefInput = [t \in Tasks |-> FALSE]
    /\ failureTimes = [t \in Tasks |-> 0]
    /\ runpc = [t \in Tasks |-> "idle"]
    /\ devpc = [t \in Tasks |-> "none"]
    /\ trace = [t \in Tasks |-> << >>]
    /\ sem = 0

\* The semaphore of SpecSem, which the tasks do not use
SemThreads == {"w1", "w2", "w3"}

kMaxPriority == 3

Priorities == 0..(kMaxPriority - 1)

NoCall == [pc |-> "idle", c |-> 0, p |-> 0]

SemIdle ==
    /\ m_count = 0
    /\ m_pending = [p \in Priorities |-> 0]
    /\ waiter = [th \in SemThreads |-> NoCall]
    /\ notified = {}

Init == LifeInit /\ EstIdle /\ ResInit(MaxOOM) /\ SemIdle

----------------------------------------------------------------------------
(* sstl::priority_semaphore. Every member function holds m_mu for its whole *)
(* body; a thread gives it up only while it is blocked in                   *)
(* m_queues[p].wait.                                                        *)

\* Largest count the posts raise m_count to
MaxCount == 3

\* Largest c of a post, wait or try_wait
MaxDemand == 2

Demands == 1..MaxDemand

Blocked(p) == {th \in SemThreads : waiter[th].pc = "blocked" /\ waiter[th].p = p}

\* A faulty can_take: the pending counts of the other priorities are ignored
can_take_CountOnly(c, p) == m_count >= c

\* can_take(c, p)
can_take(c, p) ==
    /\ \A i \in Priorities : i < p => m_pending[i] = 0
    /\ m_count >= c

\* The queue post notifies: the first priority with a pending waiter
FirstPending ==
    IF \E q \in Priorities : m_pending[q] > 0
    THEN Blocked(CHOOSE q \in Priorities :
                   m_pending[q] > 0 /\ \A i \in Priorities : i < q => m_pending[i] = 0)
    ELSE {}

\* post(c)
post(c) ==
    /\ m_count + c <= MaxCount
    /\ m_count' = m_count + c
    /\ notified' = notified \cup FirstPending
    /\ UNCHANGED <<m_pending, waiter, lifeVars, estVars, resVars>>

\* wait(c, p) up to its return or to the block in m_queues[p].wait
wait(th, c, p) ==
    /\ waiter[th].pc = "idle"
    /\ IF can_take(c, p)
       THEN /\ m_count' = m_count - c
            /\ UNCHANGED <<m_pending, waiter>>
       ELSE /\ m_pending' = [m_pending EXCEPT ![p] = @ + 1]
            /\ waiter' = [waiter EXCEPT ![th] = [pc |-> "blocked", c |-> c, p |-> p]]
            /\ m_count' = m_count
    /\ UNCHANGED <<notified, lifeVars, estVars, resVars>>

\* A blocked thread wakes without a notify_all, as a condition variable may
spurious_wakeup(th) ==
    /\ waiter[th].pc = "blocked"
    /\ th \notin notified
    /\ notified' = notified \cup {th}
    /\ UNCHANGED <<m_count, m_pending, waiter, lifeVars, estVars, resVars>>

\* A woken thread evaluates the predicate of m_queues[p].wait under the lock:
\* it takes and returns, or blocks again
wait_woken(th) ==
    /\ waiter[th].pc = "blocked"
    /\ th \in notified
    /\ notified' = notified \ {th}
    /\ IF can_take(waiter[th].c, waiter[th].p)
       THEN /\ m_pending' = [m_pending EXCEPT ![waiter[th].p] = @ - 1]
            /\ m_count' = m_count - waiter[th].c
            /\ waiter' = [waiter EXCEPT ![th] = NoCall]
       ELSE UNCHANGED <<m_count, m_pending, waiter>>
    /\ UNCHANGED <<lifeVars, estVars, resVars>>

\* try_wait(c, p): a call that returns false changes nothing
try_wait(th, c, p) ==
    /\ waiter[th].pc = "idle"
    /\ m_count' = IF can_take(c, p) THEN m_count - c ELSE m_count
    /\ UNCHANGED <<m_pending, waiter, notified, lifeVars, estVars, resVars>>

NextSem ==
    \/ \E c \in Demands : post(c)
    \/ \E th \in SemThreads, c \in Demands, p \in Priorities : wait(th, c, p)
    \/ \E th \in SemThreads, c \in Demands, p \in Priorities : try_wait(th, c, p)
    \/ \E th \in SemThreads : spurious_wakeup(th)
    \/ \E th \in SemThreads : wait_woken(th)

SpecSem == Init /\ [][NextSem]_vars

Next ==
    \E t \in Tasks :
      \/ Prepare(t)
      \/ RunSetupKernelFail(t)
      \/ RunSetAllocAttrFail(t)
      \/ RunDeadNode(t)
      \/ RunPrepareInputsFail(t)
      \/ RunSync(t)
      \/ RunAsync(t)
      \/ RunLaunched(t)
      \/ FinishNotify(t)
      \/ FinishDone(t)
      \/ AsyncDone(t)
      \/ AsyncNotify(t)
      \/ AsyncDoneCb(t)

Spec == Init /\ [][Next]_vars

InitEst == LifeInit /\ EstInit /\ ResInit(MaxOOM) /\ SemIdle

NextEst ==
    \/ \E dev \in EstDevices : EstimatedUsage(dev)
    \/ EstMemoryFailure
    \/ SessionChange

SpecEst == InitEst /\ [][NextEst]_vars

\* The task SpecRes follows; the other task keeps its reservation
ResTask == "t1"

InitRes == LifeInit /\ EstIdle /\ ResInit(MaxOOM + 1) /\ SemIdle

NextRes ==
    \/ Reserve(ResTask)
    \/ Prepare(ResTask)
    \/ ReleasePreAllocation(ResTask)
    \/ RunSetupKernelFail(ResTask)
    \/ RunSetAllocAttrFail(ResTask)
    \/ RunDeadNode(ResTask)
    \/ RunPrepareInputsFail(ResTask)
    \/ RunSync(ResTask)
    \/ RunAsync(ResTask)
    \/ RunLaunched(ResTask)
    \/ FinishNotify(ResTask)
    \/ FinishDone(ResTask)
    \/ AsyncDone(ResTask)
    \/ AsyncNotify(ResTask)
    \/ AsyncDoneCb(ResTask)

SpecRes == InitRes /\ [][NextRes]_vars

----------------------------------------------------------------------------
(* Properties of the run cycle *)

TypeOK ==
    /\ phase \in [Tasks -> {"Created", "Rejected", "Prepared", "Running",
                            "Finished", "MemFailed"}]
    /\ rctxSpec \in [Tasks -> DeviceSpecs \cup {NoDevice}]
    /\ opKernel \in [Tasks -> BOOLEAN]
    /\ kernelCache \in [Tasks -> KnownDevices \cup {NoDevice}]
    /\ hasRefInput \in [Tasks -> BOOLEAN]
    /\ failureTimes \in [Tasks -> 0..oomCap]
    /\ runpc \in [Tasks -> {"idle", "compute_async", "finish_notify", "finish_done"}]
    /\ devpc \in [Tasks -> {"none", "pending", "async_notify", "async_done"}]
    /\ sem \in 0..Cardinality(Tasks)

\* The call of run has returned and no asyncDone is outstanding
CycleEnded(t) ==
    /\ phase[t] \in {"Finished", "MemFailed"}
    /\ runpc[t] = "idle"
    /\ devpc[t] = "none"

Fired(t, op) == Count(trace[t], op) > 0

Before(t, a, b) == 0 < Index(trace[t], a) /\ Index(trace[t], a) < Index(trace[t], b)

\* C1: in every run cycle exactly one of done and memFailure fires, exactly
\* once, whatever the kernel status and whether or not a memFailure callback
\* was supplied.
C1_ExactlyOneCallback ==
    \A t \in Tasks :
      /\ Count(trace[t], "done") + Count(trace[t], "memFailure") <= 1
      /\ CycleEnded(t) => Count(trace[t], "done") + Count(trace[t], "memFailure") = 1

\* C2: when the kernel ends with RESOURCE_EXHAUSTED and a memFailure callback
\* was supplied, memFailure is invoked exactly once and done is not invoked
\* in that cycle.
C2_OOMInvokesMemFailure ==
    \A t \in Tasks :
      (KernelStatus(trace[t]) = "RESOURCE_EXHAUSTED" /\ cycle[t].memFailure = TRUE)
        => /\ Count(trace[t], "memFailure") = 1
           /\ Count(trace[t], "done") = 0
           /\ runpc[t] \in {"idle", "compute_async"}
           /\ devpc[t] = "none"

C2_Witness ==
    \E t \in Tasks :
      /\ CycleEnded(t)
      /\ StatusOf(trace[t], "AsyncKernelDone") = "RESOURCE_EXHAUSTED"
      /\ cycle[t].memFailure = TRUE
      /\ Fired(t, "memFailure")

\* C3: when the kernel ends with RESOURCE_EXHAUSTED and no memFailure
\* callback was supplied, done fires exactly once in that cycle.
C3_OOMWithoutCallbackFiresDone ==
    \A t \in Tasks :
      (CycleEnded(t) /\ KernelStatus(trace[t]) = "RESOURCE_EXHAUSTED"
                     /\ cycle[t].memFailure = FALSE)
        => Count(trace[t], "done") = 1

\* C4: in every cycle in which done fires, launched has fired strictly
\* before done, under every interleaving of the thread that called run with
\* the device thread that executes asyncDone.
C4_LaunchedBeforeDone ==
    \A t \in Tasks : Fired(t, "done") => Before(t, "launched", "done")

\* C5: for every successful run (kernel and output processing return OK),
\* PropagateOutputs has completed strictly before done fires.
C5_PropagateBeforeDone ==
    \A t \in Tasks :
      (Fired(t, "done") /\ KernelStatus(trace[t]) = "OK"
                        /\ StatusOf(trace[t], "ProcessOutputs") = "OK")
        => /\ Count(trace[t], "PropagateOutputs") = 1
           /\ Before(t, "PropagateOutputs", "done")

C5_Witness ==
    \E t \in Tasks :
      /\ Fired(t, "done")
      /\ StatusOf(trace[t], "AsyncKernelDone") = "OK"
      /\ StatusOf(trace[t], "ProcessOutputs") = "OK"
      /\ Fired(t, "PropagateOutputs")

\* Tasks whose finish or asyncDone stands between the notify and done
BetweenNotifyAndDone == {t \in Tasks : runpc[t] = "finish_done" \/ devpc[t] = "async_done"}

\* C6: in every cycle that ends in done the semaphore num_finished_ops is
\* notified exactly once, strictly before done, and with tasks completing
\* concurrently the count is the number of cycles that have reached done
\* (plus those that have notified and are about to fire done).
C6_NotifyOncePerDone ==
    /\ \A t \in Tasks :
         Fired(t, "done") => /\ Count(trace[t], "notify") = 1
                             /\ Before(t, "notify", "done")
    /\ sem = Cardinality({t \in Tasks : Fired(t, "done")})
             + Cardinality(BetweenNotifyAndDone)

C6_Witness ==
    /\ sem = 2
    /\ \E t \in Tasks : Fired(t, "done") /\ Fired(t, "Compute")
    /\ \E t \in Tasks : Fired(t, "done") /\ Fired(t, "AsyncKernelDone")

\* C7: every call of run fires launched exactly once, for every kernel
\* status, including RESOURCE_EXHAUSTED returned by a sync kernel.
C7_LaunchedExactlyOnce ==
    \A t \in Tasks :
      /\ Count(trace[t], "launched") <= 1
      /\ CycleEnded(t) => Count(trace[t], "launched") = 1

\* The steps of run that can raise an error that is no OOM of the kernel
FailingSteps == {"SetupKernel", "SetAllocAttrForNode", "PrepareInputs", "ProcessOutputs"}

\* C8: an error status of kernel setup, allocator-attribute setup, input
\* preparation or output processing is handed unchanged to NodeDone, which is
\* followed by done; memFailure is not invoked, failureTimes is unchanged and
\* PropagateOutputs is not invoked.
C8_ErrorsPropagateToDone ==
    \A t \in Tasks : \A op \in FailingSteps :
      StatusOf(trace[t], op) \in ErrorStatuses
        => /\ StatusOf(trace[t], "NodeDone") = StatusOf(trace[t], op)
           /\ Count(trace[t], "memFailure") = 0
           /\ Count(trace[t], "PropagateOutputs") = 0
           /\ failureTimes[t] = cycle[t].failures0
           /\ phase[t] \in {"Running", "Finished"}
           /\ CycleEnded(t) => /\ Count(trace[t], "done") = 1
                               /\ Before(t, "NodeDone", "done")

C8_Witness ==
    /\ \E t \in Tasks :
         /\ CycleEnded(t)
         /\ StatusOf(trace[t], "ProcessOutputs") = "INTERNAL"
         /\ Fired(t, "AsyncKernelDone")
         /\ Fired(t, "done")
    /\ \E t \in Tasks :
         /\ CycleEnded(t)
         /\ StatusOf(trace[t], "PrepareInputs") = "RESOURCE_EXHAUSTED"
         /\ Fired(t, "done")

----------------------------------------------------------------------------
(* Properties of the estimate *)

Min(a, b) == IF a < b THEN a ELSE b

\* Sum of the temporary and the persistent quantity of a tag
SessionSum(u, tag) ==
    (IF u.temporary[tag] = Absent THEN 0 ELSE u.temporary[tag])
    + (IF u.persistant[tag] = Absent THEN 0 ELSE u.persistant[tag])

SessionTags(u) == Present(u.temporary) \cup Present(u.persistant)

\* Map m is the point-wise sum of the session's maps divided by 2^n
IsSessionSumOver(m, u, n) ==
    /\ Present(m) = SessionTags(u)
    /\ \A tag \in SessionTags(u) : m[tag] * (2 ^ n) = SessionSum(u, tag)

\* a[tag] <= b[tag] for every tag
PointwiseLeq(a, b) ==
    /\ Present(a) = Present(b)
    /\ \A tag \in Present(a) : a[tag] <= b[tag]

\* C9: with failure count k > 0 and a session usage, estimatedUsage(dev)
\* returns the point-wise sum of the session's temporary and persistent maps
\* divided by 2^(M+1-min(k,M)); with k = 0 or the session usage missing it
\* returns the shape-inference estimate.
C9_EmpiricalOrShapeEstimate ==
    lastEst.called =>
      IF lastEst.k > 0 /\ lastEst.sess.present
      THEN IsSessionSumOver(lastEst.ret, lastEst.sess,
                            maxFailures + 1 - Min(lastEst.k, maxFailures))
      ELSE lastEst.ret = ShapeInference(node, lastEst.dev)

\* C10 as stated: with the session usage unchanged the estimate after the
\* first failure is half the merged session usage, after the second a
\* quarter, and the estimate after failure k+1 is no larger than after k.
\* It is read for failure counts up to maxFailures only, where the scale has
\* not reached its floor.
C10_EstimateShrinks ==
    /\ (estLog[1].cached /\ 1 <= maxFailures)
         => IsSessionSumOver(estLog[1].map, sessUsage, 1)
    /\ (estLog[2].cached /\ 2 <= maxFailures)
         => IsSessionSumOver(estLog[2].map, sessUsage, 2)
    /\ \A k \in 1..(MaxEstFailures - 1) :
         (estLog[k].cached /\ estLog[k + 1].cached /\ k + 1 <= maxFailures)
           => PointwiseLeq(estLog[k + 1].map, estLog[k].map)

\* C10 as amended: with the session usage unchanged the estimate after
\* failure k is the merged session usage divided by 2^(M+1-min(k,M)), that is
\* 1/2^M of it after the first failure (M >= 1) and half of it from failure M
\* on, and the estimate after failure k+1 is no smaller than after k.
C10_EstimateGrows ==
    /\ \A k \in 1..MaxEstFailures :
         estLog[k].cached =>
           /\ IsSessionSumOver(estLog[k].map, sessUsage,
                               maxFailures + 1 - Min(k, maxFailures))
           /\ k >= maxFailures => IsSessionSumOver(estLog[k].map, sessUsage, 1)
    /\ estLog[1].cached /\ maxFailures >= 1
         => IsSessionSumOver(estLog[1].map, sessUsage, maxFailures)
    /\ \A k \in 1..(MaxEstFailures - 1) :
         (estLog[k].cached /\ estLog[k + 1].cached)
           => PointwiseLeq(estLog[k].map, estLog[k + 1].map)

C10_Witness ==
    /\ estLog[1].cached
    /\ estLog[2].cached
    /\ \E tag \in Tags : /\ estLog[1].map[tag] > 0
                         /\ estLog[1].map[tag] < estLog[2].map[tag]

----------------------------------------------------------------------------
(* Properties of the failure counter, prepare and the reservations *)

\* The step ends a kernel run of task t with RESOURCE_EXHAUSTED
KernelOOMStep(t) ==
    /\ KernelStatus(trace'[t]) = "RESOURCE_EXHAUSTED"
    /\ KernelStatus(trace[t]) # "RESOURCE_EXHAUSTED"

\* C11: failedTimes() never decreases: it grows by exactly 1 in a step that
\* ends a kernel run with RESOURCE_EXHAUSTED, and every other step (prepare,
\* releasePreAllocation, a reservation, any other outcome or part of run)
\* leaves it unchanged.
C11_FailedTimesCountsOOM ==
    [][\A t \in Tasks :
         FailedTimes(t)' = FailedTimes(t) + (IF KernelOOMStep(t) THEN 1 ELSE 0)]_vars

C11_Witness ==
    /\ FailedTimes(ResTask) = MaxOOM + 1
    /\ phase[ResTask] = "Finished"
    /\ relCalls[ResTask] > 0
    /\ KernelStatus(trace[ResTask]) = "OK"

\* C12 as stated: at every retry (an estimatedUsage that follows an OOM) the
\* failure counter is at most maxFailures, and once the counter has reached
\* maxFailures further failures no longer change the scale applied to the
\* session usage. Tasks constructed with maxFailures = 0 are left aside.
C12_FailuresBounded ==
    /\ (lastEst.called /\ lastEst.k > 0 /\ maxFailures >= 1)
         => lastEst.k <= maxFailures
    /\ \A k \in 1..MaxEstFailures :
         (estLog[k].cached /\ k >= maxFailures)
           => IsSessionSumOver(estLog[k].map, sessUsage, 1)

\* C12 as amended: the counter is not bounded by maxFailures; for every
\* failure count k >= maxFailures the estimate is half the merged session
\* usage, so the estimates of any two such counts are equal.
C12_ScaleStopsAtMaxFailures ==
    /\ (lastEst.called /\ lastEst.k > 0 /\ lastEst.sess.present
                       /\ lastEst.k >= maxFailures)
         => IsSessionSumOver(lastEst.ret, lastEst.sess, 1)
    /\ \A k, j \in 1..MaxEstFailures :
         (estLog[k].cached /\ estLog[j].cached /\ k >= maxFailures
                           /\ j >= maxFailures)
           => estLog[k].map = estLog[j].map

C12_Witness ==
    /\ maxFailures >= 1
    /\ lastEst.called
    /\ lastEst.k > maxFailures
    /\ lastEst.sess.present
    /\ estLog[maxFailures].cached
    /\ estLog[lastEst.k].cached
    /\ \E tag \in Tags : estLog[lastEst.k].map[tag] > 0

\* C13: within a failure epoch estimatedUsage(dev) is memoized: a call
\* returns the map the previous call for the same dev returned at the same
\* failure count, whatever the session tracker's usage has become.
C13_MemoizedWithinEpoch ==
    [][(/\ lastEst.called
        /\ lastEst'.called
        /\ lastEst'.dev = lastEst.dev
        /\ lastEst'.k = lastEst.k) => lastEst'.ret = lastEst.ret]_vars

\* The step is a prepare of task t for a device other than the one the
\* kernel cache holds the node's kernel on, and the cache, where prepare
\* asks it, reports that device
MismatchedPrepare(t) ==
    /\ Prepare(t)
    /\ kernelCache[t] # NoDevice
    /\ rctxSpec'[t] # kernelCache[t]
    /\ StatusOf(trace'[t], "find_kernel") \in {"-", "found"}

\* The step leaves the monitor's ledger and the kernel cache as they are
LedgerAndCacheKept == live' = live /\ issued' = issued /\ kernelCache' = kernelCache

\* C14 as stated: with the node's kernel created on device D, every later
\* prepare(ctx) for another device returns false, performs no reserve and no
\* free, leaves op_kernel unset and leaves the cached kernel intact.
C14_MismatchRejected ==
    [][\A t \in Tasks :
         MismatchedPrepare(t) => /\ phase'[t] = "Rejected"
                                 /\ ~opKernel'[t]
                                 /\ LedgerAndCacheKept]_vars

\* C14 as amended: such a prepare returns false, performs no reserve and no
\* free and leaves the cached kernel intact; op_kernel is unset when the
\* device kind is supported and the device is found, and keeps its value
\* when prepare returns before the kernel cache is asked.
C14_MismatchRejectedKernelKept ==
    [][\A t \in Tasks :
         MismatchedPrepare(t)
           => /\ phase'[t] = "Rejected"
              /\ LedgerAndCacheKept
              /\ opKernel'[t] = IF StatusOf(trace'[t], "find_kernel") = "found"
                                 THEN FALSE ELSE opKernel[t]
              /\ StatusOf(trace'[t], "find_kernel") = "found"
                   <=> (rctxSpec'[t][1] \in SupportedTypes(t)
                        /\ rctxSpec'[t] \in KnownDevices)]_vars

C14_Witness ==
    \E t \in Tasks :
      /\ phase[t] = "Rejected"
      /\ kernelCache[t] \in KnownDevices
      /\ rctxSpec[t] \in KnownDevices \ {kernelCache[t]}
      /\ StatusOf(trace[t], "find_kernel") = "found"
      /\ ~opKernel[t]
      /\ FailedTimes(t) > 0

\* C15: prepare(ctx) returns false whenever the device kind of ctx.spec is
\* not in supportedDeviceTypes(), and then it performs no device lookup and
\* no kernel-cache probe.
C15_UnsupportedKindRejected ==
    [][\A t \in Tasks :
         (Prepare(t) /\ rctxSpec'[t][1] \notin SupportedTypes(t))
           => /\ phase'[t] = "Rejected"
              /\ Count(trace'[t], "LookupDevice") = 0
              /\ Count(trace'[t], "find_kernel") = 0
              /\ opKernel'[t] = opKernel[t]
              /\ kernelCache' = kernelCache]_vars

C15_Witness ==
    \E t \in Tasks :
      /\ phase[t] = "Rejected"
      /\ rctxSpec[t] \in KnownDevices
      /\ rctxSpec[t][1] \notin SupportedTypes(t)
      /\ trace[t] = << >>

\* C16 as stated: prepare(ctx) returns false when the kernel lookup fails,
\* that is when find_kernel returns an error status.
C16_LookupFailureRejected ==
    \A t \in Tasks :
      (phase[t] \in {"Prepared", "Rejected"}
         /\ StatusOf(trace[t], "find_kernel") = "error") => phase[t] = "Rejected"

\* C16 as amended: when find_kernel returns an error status prepare returns
\* true with op_kernel unset; prepare returns false only for an unsupported
\* device kind, a failed device lookup, or a kernel found with an empty or
\* another device name.
C16_LookupFailureAccepted ==
    \A t \in Tasks :
      /\ (phase[t] \in {"Prepared", "Rejected"}
            /\ StatusOf(trace[t], "find_kernel") = "error")
           => phase[t] = "Prepared" /\ ~opKernel[t]
      /\ phase[t] = "Rejected"
           => \/ rctxSpec[t][1] \notin SupportedTypes(t)
              \/ StatusOf(trace[t], "LookupDevice") = "INTERNAL"
              \/ StatusOf(trace[t], "find_kernel") = "forgotten"
              \/ /\ StatusOf(trace[t], "find_kernel") = "found"
                 /\ rctxSpec[t] # kernelCache[t]

C16_Witness ==
    \E t \in Tasks :
      /\ phase[t] = "Prepared"
      /\ StatusOf(trace[t], "find_kernel") = "error"
      /\ ~opKernel[t]

\* C17: a prepare that returned false leaks no reservation: when the
\* scheduler then calls releasePreAllocation the ticket of the rejected
\* context is freed, and when it then tries prepare with a context that
\* holds another ticket the ticket of the rejected context has been freed,
\* so that no ticket stays deducted which neither the scheduler nor a task
\* holds.
C17_RejectedPrepareLeaksNothing ==
    [][\A t \in Tasks :
         /\ (ReleasePreAllocation(t) /\ phase[t] = "Rejected")
              => rctxTicket[t] \notin live'
         /\ (Prepare(t) /\ phase[t] = "Rejected" /\ rctxTicket'[t] # rctxTicket[t])
              => rctxTicket[t] \notin live']_vars

\* C18: releasePreAllocation is idempotent: the first call after a prepare
\* returns the task's reservation to the monitor, every further call (also
\* after the run has finished) leaves the ledger unchanged, no call frees
\* another reservation, and a call before any prepare does nothing.
C18_ReleaseIdempotent ==
    [][\A t \in Tasks :
         ReleasePreAllocation(t)
           => /\ rctxTicket[t] = NoTicket => live' = live
              /\ (relCalls[t] = 0 /\ rctxTicket[t] \in live)
                   => (live' = live \ {rctxTicket[t]} /\ live' # live)
              /\ relCalls[t] >= 1 => live' = live
              /\ \A tk \in live \ {rctxTicket[t]} : tk \in live'
              /\ issued' = issued]_vars

C18_Witness ==
    /\ relCalls[ResTask] = MaxReleases
    /\ phase[ResTask] = "Finished"
    /\ rctxTicket[ResTask] # NoTicket
    /\ rctxTicket[ResTask] \notin live
    /\ \E t \in Tasks \ {ResTask} : ctx[t] \in live

\* The step is the prepare of a retry: the last cycle of task t ended in
\* MemFailed, releasePreAllocation was called, and prepare is handed a
\* context with a new ticket for the same device. The kernel cache either
\* reports the kernel with its device or fails; it has not lost the device
\* name of the kernel.
RetryPrepare(t) ==
    /\ Prepare(t)
    /\ phase[t] = "MemFailed"
    /\ relCalls[t] > 0
    /\ rctxTicket'[t] # rctxTicket[t]
    /\ rctxSpec'[t] = rctxSpec[t]
    /\ StatusOf(trace'[t], "find_kernel") # "forgotten"

\* A prepared retry can be run, and a retry whose kernel and output
\* processing return OK ends in done with the outputs propagated before
RetryRuns(t) ==
    cycle[t].failures0 > 0 =>
      /\ phase[t] = "Prepared" => CanRun(t)
      /\ (CycleEnded(t) /\ KernelStatus(trace[t]) = "OK"
                        /\ StatusOf(trace[t], "ProcessOutputs") = "OK")
           => /\ phase[t] = "Finished"
              /\ Count(trace[t], "done") = 1
              /\ Before(t, "PropagateOutputs", "done")

----------------------------------------------------------------------------
(* Properties of priority_semaphore *)

\* The step is a call or a wake-up of thread th that asks for c at priority p
TakeAttempt(th, c, p) ==
    \/ wait(th, c, p)
    \/ try_wait(th, c, p)
    \/ wait_woken(th) /\ waiter[th].c = c /\ waiter[th].p = p

\* C20: a wait(c, p) or try_wait(c, p) takes from the count only when the
\* count is at least c and no waiter of a priority index below p is blocked
\* in wait; what it takes is c.
C20_StrictPriority ==
    [][\A th \in SemThreads, c \in Demands, p \in Priorities :
         (TakeAttempt(th, c, p) /\ m_count' # m_count)
           => /\ m_count >= c
              /\ m_count' = m_count - c
              /\ \A i \in Priorities : i < p => Blocked(i) = {}]_vars

C20_Witness ==
    \E lo, hi \in SemThreads :
      /\ waiter[lo].pc = "blocked"
      /\ waiter[hi].pc = "blocked"
      /\ waiter[lo].p < waiter[hi].p
      /\ m_count >= waiter[hi].c
      /\ hi \in notified

----------------------------------------------------------------------------
(* Properties of the tags and of the shape-inference path *)

cpu == <<"CPU", 0>>

\* C21: every tag of the map estimatedUsage(dev) returns is MEMORY on dev or
\* MEMORY on the cpu, whatever the failure count; no quantity of another
\* device is part of the estimate for dev.
C21_TagsOfDevOrCpu ==
    lastEst.called =>
      Present(lastEst.ret) \subseteq {<<"MEMORY", lastEst.dev>>, <<"MEMORY", cpu>>}

----------------------------------------------------------------------------
(* Properties of the finishing steps *)

\* The NodeDone step of the cycle of task t
NodeDoneOf(t) == trace[t][Index(trace[t], "NodeDone")]

\* The cycle of task t launched an asynchronous kernel
AsyncCycle(t) == Fired(t, "ComputeAsync")

\* C22: on every path that ends in done the node is marked completed, then
\* NodeDone is called, then executor Finish is triggered exactly when NodeDone
\* reported the executor completed, then num_finished_ops is notified, then
\* done fires; NodeDone is handed inline_ready on synchronous paths only.
C22_FinishOrder ==
    \A t \in Tasks :
      Fired(t, "done") =>
        /\ Before(t, "MaybeMarkCompleted", "NodeDone")
        /\ Before(t, "NodeDone", "notify")
        /\ Before(t, "notify", "done")
        /\ Count(trace[t], "MaybeMarkCompleted") = 1
        /\ Count(trace[t], "NodeDone") = 1
        /\ Fired(t, "Finish") <=> NodeDoneOf(t).completed
        /\ Fired(t, "Finish") => /\ Before(t, "NodeDone", "Finish")
                                 /\ Before(t, "Finish", "notify")
                                 /\ Count(trace[t], "Finish") = 1
        /\ NodeDoneOf(t).inline_ready <=> ~AsyncCycle(t)

----------------------------------------------------------------------------
(* Properties of the dead-node test *)

\* Number of times the kernel of task t was invoked in the cycle
KernelCalls(t) == Count(trace[t], "Compute") + Count(trace[t], "ComputeAsync")

\* Kernel setup succeeded: SetupKernel was not needed or succeeded, and
\* SetAllocAttrForNode succeeded
KernelSetupOk(t) ==
    /\ StatusOf(trace[t], "SetupKernel") \in {"-", "OK"}
    /\ StatusOf(trace[t], "SetAllocAttrForNode") = "OK"

\* The outcome of an ended cycle of task t whose node is dead exactly when
\* isDead holds: skipped, or the kernel invoked once
DeadNodeRule(t, isDead) ==
    IF isDead /\ ~IsTransferNode(t)
    THEN /\ KernelCalls(t) = 0
         /\ ~Fired(t, "PrepareInputs")
         /\ Fired(t, "ResizeOutputs")
         /\ Fired(t, "PropagateOutputs")
         /\ Fired(t, "done")
    ELSE KernelCalls(t) = 1

\* C23 as stated: whenever the kernel setup succeeded, run skips the kernel
\* exactly when the node is dead and no transfer node; then neither
\* PrepareInputs nor the kernel is invoked, the outputs are resized,
\* PropagateOutputs runs and done fires; a dead transfer node and every live
\* node has its kernel invoked exactly once.
C23_SkipsExactlyDeadNodes ==
    \A t \in Tasks :
      (CycleEnded(t) /\ KernelSetupOk(t)) => DeadNodeRule(t, cycle[t].is_dead)

\* C23 as amended: the same, for the runs in which PrepareInputs, where it
\* is called, succeeds as well; PrepareInputs is called exactly when the node
\* is not skipped, and a failure of it leaves the kernel uninvoked.
C23_SkipsDeadNodesWhenInputsReady ==
    \A t \in Tasks :
      (CycleEnded(t) /\ KernelSetupOk(t)) =>
        /\ StatusOf(trace[t], "PrepareInputs") \in {"-", "OK"}
             => DeadNodeRule(t, cycle[t].is_dead)
        /\ StatusOf(trace[t], "PrepareInputs") \notin {"-", "OK"}
             => KernelCalls(t) = 0
        /\ Fired(t, "PrepareInputs") <=> ~SkipsKernel(t, cycle[t].is_dead)

C23_Witness ==
    \E t, u \in Tasks :
      /\ CycleEnded(t) /\ CycleEnded(u)
      /\ KernelSetupOk(t) /\ KernelSetupOk(u)
      /\ cycle[t].is_dead = TRUE /\ cycle[u].is_dead = TRUE
      /\ ~IsTransferNode(t) /\ IsTransferNode(u)
      /\ Fired(t, "ResizeOutputs") /\ Fired(t, "PropagateOutputs") /\ Fired(t, "done")
      /\ KernelCalls(t) = 0
      /\ KernelCalls(u) = 1

\* Sum of the quantities of map m over the tags in S
RECURSIVE SumOver(_, _)
SumOver(S, m) ==
    IF S = {} THEN 0
    ELSE LET tag == CHOOSE x \in S : TRUE
         IN m[tag] + SumOver(S \ {tag}, m)

TotalOf(m) == SumOver(Present(m), m)

\* Product of the numbers of a sequence
RECURSIVE Product(_)
Product(seq) == IF seq = << >> THEN 1 ELSE Head(seq) * Product(Tail(seq))

\* Every dimension of output o is known
DimsKnown(o) == \A j \in 1..Len(o.dims) : o.dims[j] # UnknownDim

\* Sum of product(dims) x sizeof(dtype) over the outputs of a sequence
RECURSIVE OutputBytes(_)
OutputBytes(outs) ==
    IF outs = << >> THEN 0
    ELSE Product(Head(outs).dims) * Head(outs).size + OutputBytes(Tail(outs))

\* The outputs of a sequence whose rank is known
RECURSIVE RankKnownOnly(_)
RankKnownOnly(outs) ==
    IF outs = << >> THEN << >>
    ELSE (IF Head(outs).rankKnown THEN <<Head(outs)>> ELSE << >>)
         \o RankKnownOnly(Tail(outs))

\* The estimate of the call comes from the output shapes: the task has not
\* failed, so the call took the slow path or returned what the slow path
\* cached for dev in the constructor
ShapePath == lastEst.called /\ lastEst.k = 0

\* The node of the first scenario: one int32 output of shape [2,3]
OneOutput23Int32(n) ==
    n.shape /\ n.outputs = <<Output(TRUE, <<2, 3>>, 4, n.outputs[1].host)>>

\* C24: on the shape-inference path, when every output has known rank and
\* known dimensions, the estimate totals product(dims) x sizeof(dtype) over
\* the outputs (24 for one int32 output of shape [2,3]); an output of unknown
\* rank adds nothing, so a node whose outputs all have unknown rank, or a
\* node without shape information, yields the empty map.
C24_ShapeTotals ==
    ShapePath =>
      /\ (node.shape /\ \A i \in 1..Len(node.outputs) :
                          node.outputs[i].rankKnown /\ DimsKnown(node.outputs[i]))
           => TotalOf(lastEst.ret) = Bytes(OutputBytes(node.outputs))
      /\ OneOutput23Int32(node) => TotalOf(lastEst.ret) = Bytes(24)
      /\ lastEst.ret = ShapeInference([node EXCEPT !.outputs = RankKnownOnly(@)],
                                      lastEst.dev)
      /\ (~node.shape \/ RankKnownOnly(node.outputs) = << >>)
           => lastEst.ret = EmptyMap

\* A call for a device type the constructor cached nothing for: two outputs of
\* known shape are totalled
C24_Witness ==
    /\ ShapePath
    /\ lastEst.dev[1] \notin node.types
    /\ node.shape
    /\ Len(node.outputs) = 2
    /\ \A i \in 1..2 : node.outputs[i].rankKnown /\ DimsKnown(node.outputs[i])
    /\ TotalOf(lastEst.ret) = Bytes(56)

\* The estimate of the output loop when host-memory outputs are charged to
\* (MEMORY, cpu) and the others to (MEMORY, dev)
HostAndDeviceSplit(n, dev) ==
    IF ~n.shape THEN EmptyMap
    ELSE AddOutputs(EmptyMap, n.outputs, n.mtypes, <<"MEMORY", cpu>>, <<"MEMORY", dev>>)

\* C25: on the shape-inference path, for a device other than the cpu, every
\* output of memory type HOST_MEMORY is charged to (MEMORY, cpu) and every
\* other output to (MEMORY, dev), so that host and device bytes are held
\* under distinct tags; when the memory types cannot be looked up everything
\* is charged to (MEMORY, dev).
C25_HostOutputsChargedToCpu ==
    (ShapePath /\ lastEst.dev # cpu) =>
      /\ lastEst.ret = HostAndDeviceSplit(node, lastEst.dev)
      /\ ~node.mtypes => Present(lastEst.ret) \subseteq {<<"MEMORY", lastEst.dev>>}

\* Quantity of tag in map m, zero for a tag the map does not hold
Qty(m, tag) == IF m[tag] = Absent THEN 0 ELSE m[tag]

\* The outputs of a sequence whose rank and dimensions are all known
RECURSIVE FullyKnownOnly(_)
FullyKnownOnly(outs) ==
    IF outs = << >> THEN << >>
    ELSE (IF Head(outs).rankKnown /\ DimsKnown(Head(outs)) THEN <<Head(outs)>> ELSE << >>)
         \o FullyKnownOnly(Tail(outs))

\* C26: on the shape-inference path an output whose rank is unknown or that
\* has an unknown dimension contributes zero bytes: the quantities of the
\* estimate are those of the outputs whose rank and dimensions are all known.
C26_UnknownShapeContributesZero ==
    ShapePath =>
      \A tag \in Tags :
        Qty(lastEst.ret, tag)
          = Qty(ShapeInference([node EXCEPT !.outputs = FullyKnownOnly(@)],
                               lastEst.dev), tag)

----------------------------------------------------------------------------
(* Frame of a memory failure *)

\* The steps by which a cycle completes its node
CompletionOps ==
    {"PropagateOutputs", "MaybeMarkCompleted", "NodeDone", "Finish", "notify", "done"}

\* The kernel of the cycle of task t has returned RESOURCE_EXHAUSTED
KernelOOM(t) == KernelStatus(trace[t]) = "RESOURCE_EXHAUSTED"

\* C28: a cycle whose kernel returns RESOURCE_EXHAUSTED, synchronous or
\* asynchronous, ends in a memory failure without completion effects:
\* PropagateOutputs, MaybeMarkCompleted, NodeDone and Finish are not called,
\* num_finished_ops is not notified and done does not fire; handling the
\* status changes nothing of the task but failureTimes, which grows by one
\* (a kernel that SetupKernel created before the call is kept).
C28_MemFailureFrame ==
    [][\A t \in Tasks :
         /\ KernelOOM(t)' =>
              /\ \A op \in CompletionOps : Count(trace'[t], op) = 0
              /\ phase'[t] = "MemFailed"
              /\ failureTimes'[t] = cycle'[t].failures0 + 1
         /\ (~KernelOOM(t) /\ KernelOOM(t)') =>
              /\ failureTimes' = [failureTimes EXCEPT ![t] = @ + 1]
              /\ sem' = sem
              /\ UNCHANGED <<rctxSpec, hasRefInput, resVars>>
              /\ opKernel' = [opKernel EXCEPT ![t] = @ \/ Fired(t, "SetupKernel")']
              /\ \A u \in Tasks \ {t} : kernelCache'[u] = kernelCache[u]]_vars

\* A second memory failure of the task, from an asynchronous kernel,
\* signalled through memFailure
C28_Witness ==
    /\ CycleEnded(ResTask)
    /\ StatusOf(trace[ResTask], "AsyncKernelDone") = "RESOURCE_EXHAUSTED"
    /\ Fired(ResTask, "memFailure")
    /\ Fired(ResTask, "launched")
    /\ failureTimes[ResTask] = MaxOOM + 1

----------------------------------------------------------------------------
(* Wake-ups of priority_semaphore *)

\* The semaphore with condition variables that wake on notify_all only
NextSemNotified ==
    \/ \E c \in Demands : post(c)
    \/ \E th \in SemThreads, c \in Demands, p \in Priorities : wait(th, c, p)
    \/ \E th \in SemThreads, c \in Demands, p \in Priorities : try_wait(th, c, p)
    \/ \E th \in SemThreads : wait_woken(th)

\* Fair scheduling: a thread woken by notify_all gets the lock and evaluates
\* its predicate. Nothing obliges anyone to call post, wait or try_wait.
SpecSemFair ==
    /\ Init
    /\ [][NextSemNotified]_vars
    /\ \A th \in SemThreads : WF_vars(wait_woken(th))

\* Thread th is blocked in wait(c, p) although it could take: the count is at
\* least c and no waiter of a priority index below p is pending
CouldTake(th) ==
    /\ waiter[th].pc = "blocked"
    /\ can_take(waiter[th].c, waiter[th].p)

\* C27: priority_semaphore has no lost wake-up. Under fair scheduling and
\* without spurious wake-ups a thread does not stay blocked in wait(c, p) for
\* ever while the count is at least c and no waiter of a priority index below
\* p is pending: it returns from wait with no further post, in particular
\* after a waiter of higher priority woken by the same post took its share
\* and left.
C27_NoLostWakeup == \A th \in SemThreads : []<>(~CouldTake(th))

====
